---------------------------- MODULE Spec2Model ----------------------------
(***************************************************************************)
(* A model of wiresense.py: the sensor registry (Wiresense.sensors) and    *)
(* the per-sensor CSV log, the process-wide configured flag and the server *)
(* start, the set of live WebSocket connections (active_connections) with  *)
(* the broadcast that iterates it, and the HTTP log-retrieval handler.     *)
(*                                                                         *)
(* Strings the code inspects character by character (sensor names, URL     *)
(* paths) are sequences of one-character strings.  A reading (a Python     *)
(* dict, which keeps insertion order) is a sequence of <<key, value>>      *)
(* pairs.  A CSV file is a sequence of rows, a row a sequence of cells.    *)
(* The asyncio event loop runs one coroutine at a time and switches only   *)
(* at an await that suspends: every action below is one such atomic        *)
(* stretch of code.                                                        *)
(***************************************************************************)
EXTENDS Integers, Sequences, FiniteSets, TLC

\* ------------------------------------------------------------------ bounds
MaxSensors == 2      \* register calls that get past the name checks
MaxTime == 1         \* the clock (int(time.time())) runs over 0..MaxTime
MaxExecCalls == 2    \* execute() calls
MaxConns == 2        \* WebSocket connections ever opened
MaxFrames == 1       \* text frames received from clients
MaxRemovals == 1     \* log files removed from storage by the environment
MaxConfigCalls == 2  \* config() calls

\* ------------------------------------------------------------------ inputs
LF == "\n"
CR == "\r"
BS == "\\"

\* Sensor names tried by register: "", "t", "t/u", "t" LF and "t" CR.
SensorNames ==
  { <<>>, <<"t">>, <<"t", "/", "u">>, <<"t", LF>>, <<"t", CR>> }

\* What a reader function can return: a non-dict, {} and dicts over the
\* keys c and h.
NotADict == [isdict |-> FALSE, items |-> <<>>]
Dict(items) == [isdict |-> TRUE, items |-> items]
Readings ==
  { NotADict,
    Dict(<<>>),
    Dict(<< <<"c", 1>> >>),
    Dict(<< <<"c", 2>> >>),
    Dict(<< <<"c", 1>>, <<"h", 2>> >>),
    Dict(<< <<"h", 2>>, <<"c", 1>> >>) }

\* base_file_path values: "logs/t.csv" and "t.csv" (no directory part).
BasePaths ==
  { [dir |-> "logs", stem |-> "t", ext |-> ".csv"],
    [dir |-> "", stem |-> "t", ext |-> ".csv"] }

Conns == 1..MaxConns
Frames == { "ping" }
Ports == { "none", "8080", "9000" }
Hosts == { "none", "127.0.0.1" }

\* A file that does not exist (a file that exists holds at least one row),
\* and the csv_file_path of an object that has none.
NoFile == <<>>
NoPath == [dir |-> "", stem |-> "", ts |-> -1, ext |-> ""]

VARIABLES
  sensors,      \* Wiresense.sensors: the registry, a sequence of sensor objects
  files,        \* storage: file path -> rows, or NoFile
  dirs,         \* storage: the directories that exist
  now,          \* int(time.time())
  configured,   \* Wiresense.configured
  sites,        \* the listening endpoints bound by TCPSite.start
  cfg,          \* per config() call: where it is and its options
  active,       \* active_connections
  conn,         \* per connection: the position of its _websocket_handler
  chan,         \* per connection: "open" or "broken" (sends to it fail)
  inbox,        \* per connection: the text messages sent to it, in order,
                \* since the last execute() call began
  exec,         \* the last execute() call: its position, its set iterator,
                \* the subscribers when it started and ended, and its result
  returned,     \* per sensor: the readings of the calls that returned a payload
  calls,        \* number of execute() calls
  rowsrc,       \* per file: the readings whose rows were appended, in order
  lastReg,      \* the last register call: its name, what its reader returns
                \* and how the call ended
  resp,         \* the last HTTP request and its response
  reads,        \* number of reader-function invocations made by execute
  binds,        \* number of TCPSite.start attempts
  frames,       \* number of text frames received
  removals      \* number of files removed by the environment

vars == << sensors, files, dirs, now, configured, sites, cfg, active, conn, chan,
           inbox, exec, returned, calls, rowsrc, lastReg, resp, reads, binds,
           frames, removals >>

\* ----------------------------------------------------------------- helpers
Range(s) == { s[i] : i \in 1..Len(s) }

\* "ch in name" for a one-character ch
Contains(s, ch) == \E i \in 1..Len(s) : s[i] = ch

\* (a validation that forgets "or not data")
IsValidReadingAllowsEmpty(data) == data.isdict

\* isinstance(data, dict) and data is non-empty
IsValidReading(data) == data.isdict /\ Len(data.items) > 0

\* list(data.keys()), list(data.values())
Keys(data) == [i \in 1..Len(data.items) |-> data.items[i][1]]
Values(data) == [i \in 1..Len(data.items) |-> data.items[i][2]]

\* data[k] for a key k of the dict
Lookup(data, k) ==
  data.items[CHOOSE i \in 1..Len(data.items) : data.items[i][1] = k][2]

\* The path f"{base_name}_{timestamp}{ext}" of a sensor's CSV file.
CsvFilePath(base, timestamp) ==
  [dir |-> base.dir, stem |-> base.stem, ts |-> timestamp, ext |-> base.ext]

FilePaths == { CsvFilePath(b, t) : b \in BasePaths, t \in 0..MaxTime }

\* writer.writerow(["timestamp"] + list(data.keys()))
HeaderRow(data) == <<"timestamp">> \o Keys(data)

\* writer.writerow([timestamp] + list(data.values()))
DataRow(timestamp, data) == <<timestamp>> \o Values(data)

\* json.dumps({"key": name, "data": data})
JsonDumps(name, data) == [key |-> name, data |-> data]

\* any(sensor.name == name for sensor in Wiresense.sensors)
NameTaken(name) == \E i \in 1..Len(sensors) : sensors[i].name = name

\* (an excluded_chars list that holds "\n" alone)
HasExcludedCharLfOnly(name) == Contains(name, LF)

\* any(ec in name for ec in ["\n", "\r"])
HasExcludedChar(name) == Contains(name, LF) \/ Contains(name, CR)

\* No execute() call has been made.
NoCall ==
  [pc |-> "idle", sensor |-> 0, data |-> NotADict, payload |-> <<>>, todo |-> {},
   size |-> 0, start |-> {}, end |-> {}, outcome |-> "none", ret |-> <<>>]

\* -------------------------------------------------------------------- Init
Init ==
  /\ sensors = <<>>
  /\ files = [p \in FilePaths |-> NoFile]
  /\ dirs = {}
  /\ now = 0
  /\ configured = FALSE
  /\ sites = {}
  /\ cfg = [k \in 1..MaxConfigCalls |-> [pc |-> "idle"]]
  /\ active = {}
  /\ conn = [c \in Conns |-> "new"]
  /\ chan = [c \in Conns |-> "open"]
  /\ inbox = [c \in Conns |-> <<>>]
  /\ exec = NoCall
  /\ returned = [i \in 1..MaxSensors |-> <<>>]
  /\ calls = 0
  /\ rowsrc = [p \in FilePaths |-> <<>>]
  /\ lastReg = [outcome |-> "none"]
  /\ resp = [status |-> 0]
  /\ reads = 0
  /\ binds = 0
  /\ frames = 0
  /\ removals = 0

\* ---------------------------------------------------------------- register
\* (a constructor without the duplicate-name test)
RegOutcomeNoDupCheck(name, data, base) ==
  IF HasExcludedChar(name) THEN "InvalidName"
  ELSE IF ~IsValidReading(data) THEN "InvalidReading"
  ELSE IF base.dir = "" THEN "FileNotFound"
  ELSE "ok"

\* Wiresense.__init__(name, exec_function, base_file_path); data is what the
\* immediate exec_function() call returns.
RegOutcome(name, data, base) ==
  IF NameTaken(name) THEN "DuplicateName"
  ELSE IF HasExcludedChar(name) THEN "InvalidName"
  ELSE IF ~IsValidReading(data) THEN "InvalidReading"
  ELSE IF base.dir = "" THEN "FileNotFound"     \* os.makedirs("") raises
  ELSE "ok"

\* Wiresense.sensors.append(self) comes before exec_function is validated:
\* at that point the object has a name but no csv_file_path attribute.  cols
\* is not an attribute of the object: it records the keys of the reading the
\* header row was written from.
NewSensor(name) == [name |-> name, path |-> NoPath, cols |-> <<>>]

\* The registry after the call.
RegSensors(name, data, base) ==
  LET outcome == RegOutcome(name, data, base) IN
  IF outcome \in {"DuplicateName", "InvalidName"} THEN sensors
  ELSE IF outcome = "ok"
    THEN Append(sensors, [NewSensor(name) EXCEPT !.path = CsvFilePath(base, now),
                                                 !.cols = Keys(data)])
    ELSE Append(sensors, NewSensor(name))

\* Storage after the call: open(csv_file_path, mode="w") and the header row.
RegFiles(name, data, base) ==
  IF RegOutcome(name, data, base) = "ok"
    THEN [files EXCEPT ![CsvFilePath(base, now)] = << HeaderRow(data) >>]
    ELSE files

\* os.makedirs(dir_name, exist_ok=True)
RegDirs(name, data, base) ==
  IF RegOutcome(name, data, base) = "ok" THEN dirs \cup {base.dir} ELSE dirs

Register(name, data, base) ==
  /\ Len(sensors) < MaxSensors
  /\ lastReg' = [outcome |-> RegOutcome(name, data, base), name |-> name,
                 data |-> data]
  /\ sensors' = RegSensors(name, data, base)
  /\ dirs' = RegDirs(name, data, base)
  /\ files' = RegFiles(name, data, base)
  /\ rowsrc' = IF RegOutcome(name, data, base) = "ok"
                 THEN [rowsrc EXCEPT ![CsvFilePath(base, now)] = <<>>]
                 ELSE rowsrc
  /\ UNCHANGED << now, configured, sites, cfg, active, conn, chan, inbox, exec,
                  returned, calls, reads, binds, frames, removals, resp >>

\* time passes
Tick ==
  /\ now < MaxTime
  /\ now' = now + 1
  /\ UNCHANGED << sensors, files, dirs, configured, sites, cfg, active, conn,
                  chan, inbox, exec, returned, calls, rowsrc, lastReg, resp, reads,
                  binds, frames, removals >>

\* The environment removes a log file from storage.
RemoveFile(p) ==
  /\ removals < MaxRemovals
  /\ files[p] # NoFile
  /\ files' = [files EXCEPT ![p] = NoFile]
  /\ rowsrc' = [rowsrc EXCEPT ![p] = <<>>]
  /\ removals' = removals + 1
  /\ UNCHANGED << sensors, dirs, now, configured, sites, cfg, active, conn, chan,
                  inbox, exec, returned, calls, lastReg, resp, reads, binds, frames >>

\* ------------------------------------------------------------------ config
\* TCPSite(runner, host, port): config passes only options.get("port"), so
\* host is _run_async_server's default; a port of None is aiohttp's 8080.
SiteOf(options) ==
  [host |-> "0.0.0.0",
   port |-> IF options.port = "none" THEN "8080" ELSE options.port]

\* (a config without the "if not Wiresense.configured" test)
ConfigCallNoGuard(k, options) ==
  /\ cfg[k].pc = "idle"
  /\ \A j \in 1..(k - 1) : cfg[j].pc # "idle"
  /\ cfg' = [cfg EXCEPT ![k] = [pc |-> "setup", options |-> options]]
  /\ UNCHANGED << sensors, files, dirs, now, configured, sites, active, conn,
                  chan, inbox, exec, returned, calls, rowsrc, lastReg, resp, reads,
                  binds, frames, removals >>

\* Wiresense.config(options) up to its first suspension: the flag test, then
\* _run_async_server as far as "await runner.setup()".
ConfigCall(k, options) ==
  /\ cfg[k].pc = "idle"
  /\ \A j \in 1..(k - 1) : cfg[j].pc # "idle"
  /\ cfg' = [cfg EXCEPT ![k] =
       IF configured THEN [pc |-> "noop", options |-> options]
                     ELSE [pc |-> "setup", options |-> options]]
  /\ UNCHANGED << sensors, files, dirs, now, configured, sites, active, conn,
                  chan, inbox, exec, returned, calls, rowsrc, lastReg, resp, reads,
                  binds, frames, removals >>

\* "await site.start()": the endpoint is bound, or the bind fails because the
\* address is already in use and OSError reaches config's caller.
SiteStart(k) ==
  /\ cfg[k].pc = "setup"
  /\ binds' = binds + 1
  /\ IF SiteOf(cfg[k].options) \in sites
       THEN /\ cfg' = [cfg EXCEPT ![k].pc = "failed"]
            /\ sites' = sites
       ELSE /\ cfg' = [cfg EXCEPT ![k].pc = "bound"]
            /\ sites' = sites \cup {SiteOf(cfg[k].options)}
  /\ UNCHANGED << sensors, files, dirs, now, configured, active, conn, chan,
                  inbox, exec, returned, calls, rowsrc, lastReg, resp, reads, frames,
                  removals >>

\* (the flag set before "await site.start()")
SetConfiguredEarly(k) ==
  /\ cfg[k].pc = "setup"
  /\ configured' = TRUE
  /\ cfg' = [cfg EXCEPT ![k].pc = "done"]
  /\ UNCHANGED << sensors, files, dirs, now, sites, active, conn, chan, inbox,
                  exec, returned, calls, rowsrc, lastReg, resp, reads, binds, frames,
                  removals >>

\* site.start() has returned: Wiresense.configured = True, config returns.
SetConfigured(k) ==
  /\ cfg[k].pc = "bound"
  /\ configured' = TRUE
  /\ cfg' = [cfg EXCEPT ![k].pc = "done"]
  /\ UNCHANGED << sensors, files, dirs, now, sites, active, conn, chan, inbox,
                  exec, returned, calls, rowsrc, lastReg, resp, reads, binds, frames,
                  removals >>

\* --------------------------------------------------------------- WebSocket
\* "Message received!\n" + message
Echo(message) == <<"Message received!\n", message>>

\* A connection arrives on a bound endpoint at the root path:
\* _websocket_handler up to the receive loop: ws.prepare, then _on_connect.
\* A set iterator that is live sees the new member or not, depending on the
\* slot it lands in.
WsConnect(c, seen) ==
  /\ sites # {}
  /\ conn[c] = "new"
  /\ \A d \in 1..(c - 1) : conn[d] # "new"
  /\ active' = active \cup {c}
  /\ conn' = [conn EXCEPT ![c] = "open"]
  /\ exec' = IF exec.pc = "bcast" /\ seen
               THEN [exec EXCEPT !.todo = @ \cup {c}]
               ELSE exec
  /\ UNCHANGED << sensors, files, dirs, now, configured, sites, cfg, chan,
                  inbox, returned, calls, rowsrc, lastReg, resp, reads, binds, frames,
                  removals >>

\* The receive loop gets a text frame: _on_message echoes it.  A send to a
\* broken connection raises, the exception leaves _websocket_handler and
\* _on_disconnect is never called.
WsText(c, message) ==
  /\ conn[c] = "open"
  /\ frames < MaxFrames
  /\ frames' = frames + 1
  /\ IF chan[c] = "open"
       THEN /\ inbox' = [inbox EXCEPT ![c] =
                 Append(@, [kind |-> "echo", text |-> Echo(message)])]
            /\ conn' = conn
       ELSE /\ conn' = [conn EXCEPT ![c] = "crashed"]
            /\ inbox' = inbox
  /\ UNCHANGED << sensors, files, dirs, now, configured, sites, cfg, active,
                  chan, exec, returned, calls, rowsrc, lastReg, resp, reads, binds,
                  removals >>

\* The peer goes away: from now on a send to the connection fails.
WsBreak(c) ==
  /\ conn[c] = "open"
  /\ chan[c] = "open"
  /\ chan' = [chan EXCEPT ![c] = "broken"]
  /\ UNCHANGED << sensors, files, dirs, now, configured, sites, cfg, active,
                  conn, inbox, exec, returned, calls, rowsrc, lastReg, resp, reads,
                  binds, frames, removals >>

\* The receive loop ends (a close frame, or the closure of a broken
\* connection is noticed) and _on_disconnect removes the connection.
WsClose(c) ==
  /\ conn[c] = "open"
  /\ active' = active \ {c}
  /\ conn' = [conn EXCEPT ![c] = "closed"]
  /\ chan' = [chan EXCEPT ![c] = "broken"]
  /\ exec' = IF exec.pc = "bcast" THEN [exec EXCEPT !.todo = @ \ {c}] ELSE exec
  /\ UNCHANGED << sensors, files, dirs, now, configured, sites, cfg, inbox,
                  returned, calls, rowsrc, lastReg, resp, reads, binds, frames,
                  removals >>

\* ----------------------------------------------------------------- execute
\* open(csv_file_path, mode="a") and writer.writerow: the row goes after
\* what the file holds; a file that is missing is created by the open.
AppendRow(p, row) == [files EXCEPT ![p] = Append(@, row)]

\* (an execute without the configured test)
ExecOutcomeUnguarded(data) ==
  IF ~IsValidReading(data) THEN "InvalidReading" ELSE "bcast"

\* How the call ends before it reaches the broadcast, or "bcast".
ExecOutcome(data) ==
  IF ~configured THEN "NotConfigured"
  ELSE IF ~IsValidReading(data) THEN "InvalidReading"
  ELSE "bcast"

\* The record of a call that has ended, by raising or by returning
\* payload_str.
Ended(call, outcome) ==
  [call EXCEPT !.pc = "idle", !.todo = {}, !.outcome = outcome,
               !.end = active,
               !.ret = IF outcome = "payload" THEN <<call.payload>> ELSE <<>>]

\* (a send of the reading alone instead of the payload)
SendDataOnly(c, message) == [kind |-> "push", text |-> message.data]

\* ws.send_str(message) on a connection that is not broken: the frame that
\* connection c is sent
Send(c, message) == [kind |-> "push", text |-> message]

\* Wiresense.execute on sensors[i] up to its first suspension: the flag
\* test, the reading, the row, and _broadcast as far as the first
\* "await ws.send_str(message)" (no await comes before it); with no
\* subscriber the loop ends at once and the call returns. data is what
\* exec_function() returns when it is called.
ExecCall(i, data) ==
  LET outcome == ExecOutcome(data)
      s == sensors[i]
      none == [c \in Conns |-> <<>>]
      call == [pc |-> "bcast", sensor |-> i, data |-> data,
               payload |-> JsonDumps(s.name, data),
               todo |-> active, size |-> Cardinality(active),
               start |-> active, end |-> active,
               outcome |-> "pending", ret |-> <<>>]
  IN
  /\ exec.pc = "idle"
  /\ calls < MaxExecCalls
  /\ s.path # NoPath
  /\ calls' = calls + 1
  /\ reads' = IF outcome = "NotConfigured" THEN reads ELSE reads + 1
  /\ files' = IF outcome = "bcast"
                THEN AppendRow(s.path, DataRow(now, data))
                ELSE files
  /\ rowsrc' = IF outcome = "bcast"
                 THEN [rowsrc EXCEPT ![s.path] = Append(@, data)]
                 ELSE rowsrc
  /\ IF outcome # "bcast"
       THEN /\ exec' = Ended(call, outcome)
            /\ inbox' = none
            /\ returned' = returned
     ELSE IF active = {}
       THEN /\ exec' = Ended(call, "payload")
            /\ inbox' = none
            /\ returned' = [returned EXCEPT ![i] = Append(@, data)]
     ELSE \E c \in active :
       IF chan[c] = "broken"
         THEN /\ exec' = Ended(call, "SendFailed")
              /\ inbox' = none
              /\ returned' = returned
         ELSE /\ exec' = [call EXCEPT !.todo = @ \ {c}]
              /\ inbox' = [none EXCEPT ![c] = <<Send(c, call.payload)>>]
              /\ returned' = returned
  /\ UNCHANGED << sensors, dirs, now, configured, sites, cfg, active, conn,
                  chan, lastReg, resp, binds, frames, removals >>

\* The call in flight ends, by raising or by returning payload_str.
Finish(outcome) ==
  /\ exec' = Ended(exec, outcome)
  /\ returned' = IF outcome = "payload"
                   THEN [returned EXCEPT ![exec.sensor] = Append(@, exec.data)]
                   ELSE returned
  /\ inbox' = inbox

\* One round of "for ws in active_connections: await ws.send_str(message)".
\* The set iterator raises RuntimeError when the set's size is not what it
\* was when the loop started; send_str raises on a broken connection; when
\* the iterator is exhausted execute returns payload_str.
BroadcastStep ==
  /\ exec.pc = "bcast"
  /\ IF Cardinality(active) # exec.size
       THEN Finish("SetChanged")
     ELSE IF exec.todo = {}
       THEN Finish("payload")
     ELSE \E c \in exec.todo :
       IF chan[c] = "broken"
         THEN Finish("SendFailed")
         ELSE /\ inbox' = [inbox EXCEPT ![c] = Append(@, Send(c, exec.payload))]
              /\ exec' = [exec EXCEPT !.todo = @ \ {c}]
              /\ returned' = returned
  /\ UNCHANGED << sensors, files, dirs, now, configured, sites, cfg, active,
                  conn, chan, rowsrc, lastReg, resp, reads, binds, frames,
                  removals, calls >>

\* -------------------------------------------------------------------- HTTP
DataCsv == <<"d", "a", "t", "a", ".", "c", "s", "v">>

\* url_path.replace("\r", "\\r").replace("\n", "\\n")
RECURSIVE EscapeCrLf(_)
EscapeCrLf(s) ==
  IF s = <<>> THEN <<>>
  ELSE (IF Head(s) = CR THEN <<BS, "r">>
        ELSE IF Head(s) = LF THEN <<BS, "n">>
        ELSE <<Head(s)>>) \o EscapeCrLf(Tail(s))

\* url_path.split("/")
RECURSIVE SplitSlash(_)
SplitSlash(s) ==
  IF \A i \in 1..Len(s) : s[i] # "/" THEN << s >>
  ELSE LET k == CHOOSE i \in 1..Len(s) :
                  s[i] = "/" /\ \A j \in 1..(i - 1) : s[j] # "/"
       IN << SubSeq(s, 1, k - 1) >> \o SplitSlash(SubSeq(s, k + 1, Len(s)))

NotFound == [status |-> 404, ctype |-> "text/plain", body |-> "404: Not Found"]
InternalServerError ==
  [status |-> 500, ctype |-> "text/plain", body |-> "500: Internal Server Error"]

\* _handle_http_request for request.match_info["path"] = url_path.  Reading
\* csv_file_path of a sensor object that never got one raises AttributeError,
\* which aiohttp answers with 500.
HandleHttpRequest(url_path) ==
  LET url_parts == SplitSlash(EscapeCrLf(url_path))
      found == { i \in 1..Len(sensors) : sensors[i].name = url_parts[1] }
      first == CHOOSE i \in found : \A j \in found : i <= j
  IN
  IF Len(url_parts) = 2 /\ url_parts[2] = DataCsv
    THEN IF found = {} THEN NotFound
         ELSE IF \E i \in found : sensors[i].path = NoPath
           THEN InternalServerError
         ELSE IF files[sensors[first].path] # NoFile
           THEN [status |-> 200, ctype |-> "text/csv",
                 body |-> files[sensors[first].path]]
           ELSE InternalServerError
    ELSE NotFound

\* The paths requested: <name>/data.csv for every name tried by register,
\* and paths that are not of that form.
RequestPaths ==
  { n \o <<"/">> \o DataCsv : n \in SensorNames }
    \cup { <<"t">>, <<"t", "/">> \o DataCsv \o <<"/">> }

\* A GET of a non-root path arrives on a bound endpoint and is answered.
HttpGet(url_path) ==
  /\ sites # {}
  /\ resp' = [path |-> url_path] @@ HandleHttpRequest(url_path)
  /\ UNCHANGED << sensors, files, dirs, now, configured, sites, cfg, active,
                  conn, chan, inbox, exec, returned, calls, rowsrc, lastReg, reads,
                  binds, frames, removals >>

\* -------------------------------------------------------------------- Next
Options == [port : Ports, host : Hosts]

\* The whole program: every operation with every input.
Next ==
  \/ \E name \in SensorNames, data \in Readings, base \in BasePaths :
       Register(name, data, base)
  \/ Tick
  \/ \E p \in FilePaths : RemoveFile(p)
  \/ \E k \in 1..MaxConfigCalls, options \in Options : ConfigCall(k, options)
  \/ \E k \in 1..MaxConfigCalls : SiteStart(k)
  \/ \E k \in 1..MaxConfigCalls : SetConfigured(k)
  \/ \E c \in Conns, seen \in BOOLEAN : WsConnect(c, seen)
  \/ \E c \in Conns, message \in Frames : WsText(c, message)
  \/ \E c \in Conns : WsBreak(c)
  \/ \E c \in Conns : WsClose(c)
  \/ \E i \in 1..Len(sensors), data \in Readings : ExecCall(i, data)
  \/ BroadcastStep
  \/ \E url_path \in RequestPaths : HttpGet(url_path)

Spec == Init /\ [][Next]_vars

LogsBase == [dir |-> "logs", stem |-> "t", ext |-> ".csv"]
DefaultOptions == [port |-> "none", host |-> "none"]

\* The registry: register with every input, the clock, and the environment
\* removing files.
NextRegistry ==
  \/ \E name \in SensorNames, data \in Readings, base \in BasePaths :
       Register(name, data, base)
  \/ Tick
  \/ \E p \in FilePaths : RemoveFile(p)

SpecRegistry == Init /\ [][NextRegistry]_vars

\* The retrieval path: register with every name under one base path, one
\* config call, execute (with no subscriber it returns without suspending),
\* the environment removing files, and every request.
NextRetrieval ==
  \/ \E name \in SensorNames, data \in { Dict(<<>>), Dict(<< <<"c", 1>> >>) } :
       Register(name, data, LogsBase)
  \/ ConfigCall(1, DefaultOptions)
  \/ SiteStart(1)
  \/ SetConfigured(1)
  \/ \E i \in 1..Len(sensors) : ExecCall(i, Dict(<< <<"c", 2>> >>))
  \/ \E p \in FilePaths : RemoveFile(p)
  \/ \E url_path \in RequestPaths : HttpGet(url_path)

SpecRetrieval == Init /\ [][NextRetrieval]_vars

\* The log: sensors "t" and "t/u" registered under one base path with valid
\* first readings, the clock, one config call, execute with every reading,
\* and one subscriber.
NextLog ==
  \/ \E name \in { <<"t">>, <<"t", "/", "u">> },
        data \in { Dict(<< <<"c", 1>> >>), Dict(<< <<"c", 1>>, <<"h", 2>> >>) } :
       Register(name, data, LogsBase)
  \/ Tick
  \/ ConfigCall(1, DefaultOptions)
  \/ SiteStart(1)
  \/ SetConfigured(1)
  \/ WsConnect(1, TRUE)
  \/ WsBreak(1)
  \/ WsClose(1)
  \/ \E i \in 1..Len(sensors), data \in Readings : ExecCall(i, data)
  \/ BroadcastStep

SpecLog == Init /\ [][NextLog]_vars

\* The broadcast: one sensor, one config call, execute, and every subscriber
\* connecting, breaking and closing at any moment.
NextBroadcast ==
  \/ Register(<<"t">>, Dict(<< <<"c", 1>> >>), LogsBase)
  \/ ConfigCall(1, DefaultOptions)
  \/ SiteStart(1)
  \/ SetConfigured(1)
  \/ \E c \in Conns, seen \in BOOLEAN : WsConnect(c, seen)
  \/ \E c \in Conns : WsBreak(c)
  \/ \E c \in Conns : WsClose(c)
  \/ \E i \in 1..Len(sensors),
        data \in { Dict(<<>>), Dict(<< <<"c", 1>> >>), Dict(<< <<"c", 2>> >>) } :
       ExecCall(i, data)
  \/ BroadcastStep

SpecBroadcast == Init /\ [][NextBroadcast]_vars

\* The server start: config calls with every option, at any moment of one
\* another, one sensor, execute, and one subscriber.
NextConfig ==
  \/ Register(<<"t">>, Dict(<< <<"c", 1>> >>), LogsBase)
  \/ \E k \in 1..MaxConfigCalls, options \in Options : ConfigCall(k, options)
  \/ \E k \in 1..MaxConfigCalls : SiteStart(k)
  \/ \E k \in 1..MaxConfigCalls : SetConfigured(k)
  \/ WsConnect(1, TRUE)
  \/ \E i \in 1..Len(sensors) : ExecCall(i, Dict(<< <<"c", 1>> >>))
  \/ BroadcastStep

SpecConfig == Init /\ [][NextConfig]_vars

\* The subscribers' connections: one sensor, one config call, every
\* connection with its text frames, its breaking and its closing, and
\* execute.
NextSubscriber ==
  \/ Register(<<"t">>, Dict(<< <<"c", 1>> >>), LogsBase)
  \/ ConfigCall(1, DefaultOptions)
  \/ SiteStart(1)
  \/ SetConfigured(1)
  \/ \E c \in Conns : WsConnect(c, TRUE)
  \/ \E c \in Conns, message \in Frames : WsText(c, message)
  \/ \E c \in Conns : WsBreak(c)
  \/ \E c \in Conns : WsClose(c)
  \/ \E i \in 1..Len(sensors) : ExecCall(i, Dict(<< <<"c", 1>> >>))
  \/ BroadcastStep

\* The event loop runs every task that can run: a broadcast whose send has
\* returned goes on, and the receive loop of a connection whose transport
\* is gone gets the closure and ends.
SpecSubscriber ==
  /\ Init
  /\ [][NextSubscriber]_vars
  /\ WF_vars(BroadcastStep)
  /\ \A c \in Conns : WF_vars(chan[c] = "broken" /\ WsClose(c))

\* ------------------------------------------------------------------ claims
PushesTo(c) == { j \in 1..Len(inbox[c]) : inbox[c][j].kind = "push" }
Registered == { i \in 1..Len(sensors) : sensors[i].path # NoPath }
DataCsvOf(name) == name \o <<"/">> \o DataCsv

\* C1: when a send to one subscriber fails during the broadcast of an execute
\* call, every other subscriber that is in the set for the whole call and
\* whose channel works has still been sent the payload.
C1_FailureIsolated ==
  (exec.pc = "idle" /\ exec.outcome = "SendFailed") =>
    \A c \in exec.start \cap exec.end :
      chan[c] = "open" =>
        \E j \in PushesTo(c) : inbox[c][j].text = exec.payload

\* C2: an execute call that returns has sent exactly one message to every
\* subscriber that is in the set from its start to its end, nobody got more
\* than one, and every message sent is the string the call returns, the
\* serialization of {key: the sensor's name, data: the reading}.
C2_OneIdenticalMessageEach ==
  (exec.pc = "idle" /\ exec.outcome = "payload") =>
    /\ exec.ret = << [key |-> sensors[exec.sensor].name, data |-> exec.data] >>
    /\ \A c \in exec.start \cap exec.end : Cardinality(PushesTo(c)) = 1
    /\ \A c \in Conns :
         /\ Cardinality(PushesTo(c)) <= 1
         /\ \A j \in PushesTo(c) : inbox[c][j].text = exec.ret[1]

C2_Witness ==
  /\ exec.pc = "idle"
  /\ exec.outcome = "payload"
  /\ Cardinality(exec.start \cap exec.end) = 2
  /\ \A c \in exec.start : Cardinality(PushesTo(c)) = 1

\* C3: with no execute call in flight, the log of every registered sensor is
\* the header row (timestamp, then the keys of the registration-time reading)
\* followed by one row per execute call on it that returned, the i-th row
\* holding the values of the i-th such call's reading.
C3_LogIsHeaderPlusReturnedRows ==
  exec.pc = "idle" =>
    \A i \in Registered :
      LET log == files[sensors[i].path] IN
      /\ Len(log) = 1 + Len(returned[i])
      /\ log[1] = <<"timestamp">> \o sensors[i].cols
      /\ \A j \in 1..Len(returned[i]) : Tail(log[j + 1]) = Values(returned[i][j])

\* C4: every data row of a registered sensor's log is as long as the header
\* row and holds, under each column, the value the reading it was written
\* from has for that column's key.
C4_RowsMatchColumns ==
  \A i \in Registered :
    LET p == sensors[i].path
        log == files[p]
    IN
    \A j \in 1..Len(rowsrc[p]) :
      /\ Len(log[j + 1]) = Len(log[1])
      /\ \A k \in 2..Len(log[1]) :
           /\ log[1][k] \in Range(Keys(rowsrc[p][j]))
           /\ log[j + 1][k] = Lookup(rowsrc[p][j], log[1][k])

\* C5: an execute call made while no config call has completed (also while
\* the endpoint is being bound) ends with the not-configured error, invokes
\* no reader function, leaves every log as it is and sends nothing.
C5_ExecuteBeforeConfigureFails ==
  [][ (calls' = calls + 1 /\ \A k \in 1..MaxConfigCalls : cfg[k].pc # "done") =>
        /\ exec'.pc = "idle"
        /\ exec'.outcome = "NotConfigured"
        /\ reads' = reads
        /\ files' = files
        /\ \A c \in Conns : inbox'[c] = <<>> ]_vars

C5_Witness ==
  /\ exec.outcome = "NotConfigured"
  /\ cfg[1].pc = "bound"
  /\ sites # {}
  /\ active # {}
  /\ reads = 0

\* C6: the names in the registry are pairwise distinct, and a register call
\* with a name the registry holds ends with the duplicate-name error and
\* leaves the registry and every file as they are.
C6_NamesDistinct ==
  /\ [](\A i, j \in 1..Len(sensors) : sensors[i].name = sensors[j].name => i = j)
  /\ [][ ( /\ lastReg' # lastReg
           /\ \E i \in 1..Len(sensors) : sensors[i].name = lastReg'.name ) =>
         /\ lastReg'.outcome = "DuplicateName"
         /\ sensors' = sensors
         /\ files' = files ]_vars

C6_Witness ==
  /\ lastReg.outcome = "DuplicateName"
  /\ Len(sensors) = 1
  /\ sensors[1].name = lastReg.name
  /\ sensors[1].path # NoPath
  /\ files[sensors[1].path] # NoFile

\* C7: a register call whose reader returns something that is not a
\* non-empty dict never succeeds and creates no file and no directory; when
\* the name passes the name tests the call ends with the invalid-reading
\* error.
C7_InvalidFirstReadingCreatesNothing ==
  [][ ( /\ lastReg' # lastReg
        /\ ~(lastReg'.data.isdict /\ Len(lastReg'.data.items) > 0) ) =>
      /\ files' = files
      /\ dirs' = dirs
      /\ lastReg'.outcome \in {"InvalidReading", "DuplicateName", "InvalidName"}
      /\ ( ( /\ \A i \in 1..Len(sensors) : sensors[i].name # lastReg'.name
             /\ \A k \in 1..Len(lastReg'.name) : lastReg'.name[k] \notin {LF, CR} )
           => lastReg'.outcome = "InvalidReading" ) ]_vars

C7_Witness ==
  /\ lastReg.outcome = "InvalidReading"
  /\ lastReg.data = Dict(<<>>)
  /\ dirs = {}
  /\ \A p \in FilePaths : files[p] = NoFile

\* C8 as stated: every name in the registry is non-empty and holds no CR and
\* no LF.
C8_NamesNonEmptyNoCrLf ==
  \A i \in 1..Len(sensors) :
    /\ sensors[i].name # <<>>
    /\ \A k \in 1..Len(sensors[i].name) : sensors[i].name[k] \notin {LF, CR}

\* C8, amended: every name in the registry (the empty name is accepted)
\* holds no CR and no LF, and a register call with a name holding CR or LF
\* ends with the invalid-name error and adds nothing to the registry.
C8_NamesNoCrLf ==
  /\ [](\A i \in 1..Len(sensors) :
          \A k \in 1..Len(sensors[i].name) : sensors[i].name[k] \notin {LF, CR})
  /\ [][ ( /\ lastReg' # lastReg
           /\ \E k \in 1..Len(lastReg'.name) : lastReg'.name[k] \in {LF, CR} ) =>
         /\ lastReg'.outcome = "InvalidName"
         /\ sensors' = sensors ]_vars

C8_Witness ==
  /\ lastReg.outcome = "InvalidName"
  /\ lastReg.name = <<"t", CR>>
  /\ Len(sensors) = 1
  /\ sensors[1].name = <<>>

\* C9: a request for <name>/data.csv, <name> the name of a registered
\* sensor whose log file exists, is answered 200 with content type text/csv
\* and the file's content at that moment, whatever was requested before.
C9_RegisteredLogRetrieved ==
  [][ \A i \in Registered :
        ( /\ resp' # resp
          /\ resp'.path = DataCsvOf(sensors[i].name)
          /\ files[sensors[i].path] # NoFile ) =>
        /\ resp'.status = 200
        /\ resp'.ctype = "text/csv"
        /\ resp'.body = files[sensors[i].path] ]_vars

\* C10: a request whose path is not <name>/data.csv, or whose <name> is not
\* the name of a successfully registered sensor, is answered 404; a request
\* for a registered sensor whose log file is missing is answered 500.
C10_NotFoundOrInternalError ==
  [][ resp' # resp =>
        LET named == { n \in SensorNames : resp'.path = DataCsvOf(n) }
            known == { i \in Registered : resp'.path = DataCsvOf(sensors[i].name) }
        IN
        /\ (named = {} \/ known = {}) => resp'.status = 404
        /\ \A i \in known : files[sensors[i].path] = NoFile => resp'.status = 500
    ]_vars

\* C11: a config call made after a config call has completed is a no-op: it
\* binds nothing, attempts no bind, raises nothing and leaves the flag true;
\* after a first call that completed and later calls made after it, exactly
\* one endpoint is bound and the flag is true.
C11_ConfigIdempotent ==
  /\ [][ \A k \in 1..MaxConfigCalls :
           ( /\ cfg[k].pc = "idle"
             /\ cfg'[k].pc # "idle"
             /\ \E j \in 1..MaxConfigCalls : cfg[j].pc = "done" ) =>
           /\ cfg'[k].pc = "noop"
           /\ sites' = sites
           /\ binds' = binds
           /\ configured' ]_vars
  /\ [][ \A k \in 1..MaxConfigCalls : cfg[k].pc = "noop" => cfg'[k] = cfg[k] ]_vars
  /\ []( ( /\ cfg[1].pc = "done"
           /\ \A k \in 2..MaxConfigCalls : cfg[k].pc \in {"idle", "noop"} ) =>
         (Cardinality(sites) = 1 /\ binds = 1 /\ configured) )

C11_Witness ==
  /\ cfg[1].pc = "done"
  /\ cfg[2].pc = "noop"
  /\ Cardinality(sites) = 1
  /\ binds = 1
  /\ configured

\* C12: the configured flag is true only when an endpoint is bound and the
\* config call that bound it has got past site.start(); the flag turns true
\* only in the step of a call whose bind succeeded, never in a call whose
\* bind failed, and once true it stays true.
C12_FlagOnlyAfterBind ==
  /\ [](configured =>
          /\ sites # {}
          /\ \E k \in 1..MaxConfigCalls : cfg[k].pc = "done")
  /\ [][ configured => configured' ]_vars
  /\ [][ (~configured /\ configured') =>
           \E k \in 1..MaxConfigCalls :
             /\ cfg[k].pc = "bound"
             /\ cfg'[k].pc = "done"
             /\ sites' = sites
             /\ sites # {} ]_vars
  /\ [][ \A k \in 1..MaxConfigCalls :
           cfg[k].pc = "failed" => cfg'[k].pc = "failed" ]_vars

C12_Witness ==
  /\ configured
  /\ sites # {}
  /\ cfg[1].pc = "done"
  /\ cfg[2].pc = "failed"

\* C13: once the first config call has completed, an endpoint is bound on
\* the host its options give ("0.0.0.0" when they give none) and on the port
\* they give.
C13_BoundOnOptionsHostPort ==
  cfg[1].pc = "done" =>
    \E site \in sites :
      /\ site.host = IF cfg[1].options.host = "none" THEN "0.0.0.0"
                                                     ELSE cfg[1].options.host
      /\ cfg[1].options.port # "none" => site.port = cfg[1].options.port

\* C19: with config calls that overlap (a later one issued while an earlier
\* one is still binding and the flag is still false), at most one attempt to
\* bind the endpoint is made and no call raises.
C19_OverlapBindsOnce ==
  /\ binds <= 1
  /\ \A k \in 1..MaxConfigCalls : cfg[k].pc # "failed"

\* C14: a broadcast during which a connect or a disconnect has changed the
\* set of subscribers still completes without an error of the iteration,
\* and when it completes every subscriber that was a member at its start and
\* is still one at its end has been sent the payload.
C14_MutationTolerated ==
  /\ exec.outcome # "SetChanged"
  /\ (exec.pc = "idle" /\ exec.outcome = "payload" /\ exec.start # exec.end) =>
       \A c \in exec.start \cap exec.end :
         \E j \in PushesTo(c) : inbox[c][j].text = exec.payload

\* C20: between execute calls, the number of data rows in every sensor's log
\* equals the number of execute calls on that sensor that returned a
\* payload: a call that raised has added no row.
C20_RowsAreReturnedCalls ==
  exec.pc = "idle" =>
    \A i \in Registered :
      Len(files[sensors[i].path]) = 1 + Len(returned[i])

\* C16: from the moment a subscriber has been sent the payload of a reading,
\* the log file of the reading's sensor holds the row written from that
\* reading, so that a retrieval made after the payload was received shows it.
C16_RowVisibleOncePushed ==
  \A c \in Conns :
    PushesTo(c) # {} =>
      LET log == files[sensors[exec.sensor].path] IN
      \E j \in 2..Len(log) : Tail(log[j]) = Values(exec.data)

\* C17: a register call that fails leaves the registry as it was before the
\* call, so the name it was given is no member because of it.
C17_FailedRegisterLeavesRegistry ==
  [][ (lastReg' # lastReg /\ lastReg'.outcome # "ok") =>
        sensors' = sensors ]_vars

\* C18: no two registered sensors have the same log file.
C18_LogsNotShared ==
  \A i, j \in Registered : i # j => sensors[i].path # sensors[j].path

\* C15: every connection that is a member of the subscriber set and whose
\* transport is gone (closed by the peer, or a send to it has failed) is
\* eventually removed from the set.
C15_ClosedEventuallyRemoved ==
  \A c \in Conns : (c \in active /\ chan[c] = "broken") ~> (c \notin active)
=============================================================================
